---- MODULE Spec2Model ----
(***************************************************************************)
(* Model of superstore_app.py: the SuperstoreAgent class (the dataset it   *)
(* holds, the reporting methods that touch it, and the per-product         *)
(* seasonal forecast sweep forecast_all_products) and the chat section's   *)
(* answer routing.                                                         *)
(*                                                                         *)
(* A calendar month is an integer ym (1 = January of the first year); an   *)
(* order date is a record [valid, ym, day]; valid = FALSE is a cell that   *)
(* pd.to_datetime cannot parse.  The library calls are modelled by what    *)
(* they return: resample('M').sum() as the contiguous monthly sums,        *)
(* ExponentialSmoothing(...).fit().forecast(6) as either an exception or a *)
(* Series over the six following months whose values are opaque, and       *)
(* pd.DataFrame(dict of Series) as the column-wise alignment of the Series *)
(* on the sorted union of their indexes.                                   *)
(***************************************************************************)
EXTENDS Integers, Sequences, FiniteSets, TLC

VARIABLES
  file,            \* the uploaded spreadsheet: its rows and its columns
  fitFails,        \* the products on whose series the library's fit raises
  agent,           \* "none", "ready", or "failed" when __init__ raised
  df,              \* self.df of the agent
  result,          \* what the last forecast_all_products call returned or raised,
                   \* with the monthly series it built on the way (log)
  repeated,        \* the last call repeated the call before it (same min_months)
  knowledge_base,  \* the list loaded from knowledge_base.json
  user_prompt,     \* the text typed in the chat box
  chat             \* what the chat section showed and which calls it made

agentVars == <<file, fitFails, agent, df, result, repeated>>
chatVars == <<knowledge_base, user_prompt, chat>>
vars == <<agentVars, chatVars>>

-----------------------------------------------------------------------------
(* Bounds of the model and constants of the program *)

MaxRows == 3
MaxBadRows == 2
MaxKB == 2
Horizon == 6
DefaultMinMonths == 12

Products == {"A", "B"}
MinMonthsArgs == {1, DefaultMinMonths}

Date(ym, day) == [valid |-> TRUE, ym |-> ym, day |-> day]
Unparseable == [valid |-> FALSE, ym |-> 0, day |-> 0]

\* the (order date, sales amount) pairs the rows of a file are drawn from: the
\* two sides of a month boundary, one of them a negative amount (a return),
\* and a date eleven and ten months later
Txn(d, s) == [date |-> d, sales |-> s]
Transactions ==
  {Txn(Date(1, 31), 2), Txn(Date(2, 1), -1), Txn(Date(12, 15), 3)}
BadTransactions == {Txn(Date(1, 31), 2), Txn(Date(12, 15), 3), Txn(Unparseable, 2)}

RequiredColumns == {"Order Date", "Product Name", "Sales"}
OtherColumns == {"Category", "Sub-Category", "Profit"}

Row(p, d, s) == [product |-> p, date |-> d, sales |-> s]
GoodRows == {Row(p, t.date, t.sales) : p \in Products, t \in Transactions}
BadRows == {Row(p, t.date, t.sales) : p \in Products, t \in BadTransactions}

SeqsUpTo(S, n) == UNION {[1..k -> S] : k \in 0..n}

WellFormedFiles ==
  {[rows |-> r, cols |-> RequiredColumns \cup OtherColumns] : r \in SeqsUpTo(GoodRows, MaxRows)}
MalformedFiles ==
  {[rows |-> r, cols |-> c \cup OtherColumns] :
      r \in SeqsUpTo(BadRows, MaxBadRows), c \in SUBSET RequiredColumns}
Files == WellFormedFiles \cup MalformedFiles

-----------------------------------------------------------------------------
(* Generic helpers *)

Range(s) == {s[i] : i \in 1..Len(s)}

RECURSIVE SortedSeq(_)
SortedSeq(S) ==
  IF S = {} THEN <<>>
  ELSE LET m == CHOOSE x \in S : \A y \in S : x <= y
       IN <<m>> \o SortedSeq(S \ {m})

-----------------------------------------------------------------------------
(* SuperstoreAgent.__init__ *)

NoFrame == [rows |-> <<>>, cols |-> {}, Month |-> <<>>, Season |-> <<>>]

\* pd.to_datetime(column): raises when a cell cannot be parsed
ToDatetimeRaises(rows) == \E i \in 1..Len(rows) : ~rows[i].date.valid

InitRaises(f) == "Order Date" \notin f.cols \/ ToDatetimeRaises(f.rows)

ReadExcel(f) == [rows |-> f.rows, cols |-> f.cols, Month |-> <<>>, Season |-> <<>>]

-----------------------------------------------------------------------------
(* forecast_all_products *)

RECURSIVE FirstSeen(_)
FirstSeen(s) ==
  IF s = <<>> THEN <<>>
  ELSE LET init == FirstSeen(SubSeq(s, 1, Len(s) - 1))
           x == s[Len(s)]
       IN IF x \in Range(init) THEN init ELSE Append(init, x)

\* mutant: the distinct values in sorted order, as numpy.unique returns them
UniqueSorted(s) ==
  LET RECURSIVE Sorted(_)
      Sorted(S) == IF S = {} THEN <<>>
                   ELSE LET m == CHOOSE x \in S : \A y \in S : (x = "A" \/ y = "B")
                        IN <<m>> \o Sorted(S \ {m})
  IN Sorted(Range(s))

\* Series.unique(): the distinct values in order of first appearance
Unique(s) == FirstSeen(s)

ProductNames(d) == [i \in 1..Len(d.rows) |-> d.rows[i].product]

\* self.df[self.df['Product Name'] == product]
ProductData(d, product) ==
  LET Same(r) == r.product = product IN SelectSeq(d.rows, Same)

\* the bin of resample('M') an order date falls in: its calendar month
MonthBin(date) == date.ym

RECURSIVE BinSum(_, _)
BinSum(rows, ym) ==
  IF rows = <<>> THEN 0
  ELSE (IF MonthBin(Head(rows).date) = ym THEN Head(rows).sales ELSE 0)
       + BinSum(Tail(rows), ym)

RECURSIVE BinLast(_, _)
BinLast(rows, ym) ==
  IF rows = <<>> THEN 0
  ELSE IF MonthBin(rows[Len(rows)].date) = ym THEN rows[Len(rows)].sales
  ELSE BinLast(SubSeq(rows, 1, Len(rows) - 1), ym)

\* mutant: the last amount of the bin instead of the sum
BinValueLast(rows, ym) == BinLast(rows, ym)

\* the value of a monthly bin: the sum of its rows, 0 for an empty bin
BinValue(rows, ym) == BinSum(rows, ym)

\* mutant: only the months that have a transaction, as a groupby would give
ResampleBinsObserved(rows) ==
  SortedSeq({MonthBin(rows[i].date) : i \in 1..Len(rows)})

\* the bins resample('M') makes: every month from the first to the last
ResampleBins(rows) ==
  LET months == {MonthBin(rows[i].date) : i \in 1..Len(rows)}
      lo == CHOOSE m \in months : \A n \in months : m <= n
      hi == CHOOSE m \in months : \A n \in months : n <= m
  IN [i \in 1..(hi - lo + 1) |-> lo + i - 1]

\* product_data.set_index('Order Date').resample('M')['Sales'].sum().fillna(0)
MonthlySales(rows) ==
  IF rows = <<>> THEN [index |-> <<>>, values |-> <<>>]
  ELSE LET bins == ResampleBins(rows)
       IN [index |-> bins,
           values |-> [i \in 1..Len(bins) |-> BinValue(rows, bins[i])]]

\* mutant: the threshold off by one
TooShortOffByOne(monthly_sales, min_months) == Len(monthly_sales.values) < min_months - 1

\* if len(monthly_sales) < min_months: continue
TooShort(monthly_sales, min_months) == Len(monthly_sales.values) < min_months

\* fit.forecast(6): the six months after the last month of the series
Forecast(monthly_sales) ==
  LET last == monthly_sales.index[Len(monthly_sales.index)]
  IN [index |-> [i \in 1..Horizon |-> last + i],
      values |-> [i \in 1..Horizon |-> "pred"]]

\* forecasts[product] = forecast
Store(forecasts, product, forecast) ==
  Append(forecasts, [key |-> product, series |-> forecast])

\* mutant: the failing product is stored with an empty forecast
OnFitErrorStoreNone(forecasts, product) ==
  Append(forecasts, [key |-> product, series |-> [index |-> <<>>, values |-> <<>>]])

\* except: the assignment to forecasts[product] was not reached
OnFitError(forecasts, product) == forecasts

\* mutant: the handler leaves the loop (break)
BreakAfterFitError(rest) == <<>>

\* except: continue -- the loop goes on with the remaining products
ContinueAfterFitError(rest) == rest

\* mutant: the exception is swallowed and the loop's partial result is kept
PropagateSwallowed(forecasts, log) == [raised |-> FALSE, forecasts |-> forecasts, log |-> log]

\* an exception outside the try block leaves the function: nothing is returned
Propagate(forecasts, log) == [raised |-> TRUE, forecasts |-> <<>>, log |-> log]

RECURSIVE ForecastLoop(_, _, _, _, _, _)
ForecastLoop(d, products, min_months, fails, forecasts, log) ==
  IF products = <<>> THEN [raised |-> FALSE, forecasts |-> forecasts, log |-> log]
  ELSE LET product == Head(products)
           rest == Tail(products)
       IN IF "Sales" \notin d.cols THEN Propagate(forecasts, log)
          ELSE LET monthly_sales == MonthlySales(ProductData(d, product))
                   seen == Append(log, [key |-> product, series |-> monthly_sales])
               IN IF TooShort(monthly_sales, min_months)
                  THEN ForecastLoop(d, rest, min_months, fails, forecasts, seen)
                  ELSE IF product \in fails
                  THEN ForecastLoop(d, ContinueAfterFitError(rest), min_months, fails,
                                    OnFitError(forecasts, product), seen)
                  ELSE ForecastLoop(d, rest, min_months, fails,
                                    Store(forecasts, product, Forecast(monthly_sales)), seen)

Keys(forecasts) == [i \in 1..Len(forecasts) |-> forecasts[i].key]

\* pd.DataFrame(forecasts): one column per key, in insertion order, aligned on
\* the sorted union of the indexes; a month outside a column's own index is NaN
DataFrameIndex(forecasts) ==
  SortedSeq(UNION {Range(forecasts[i].series.index) : i \in 1..Len(forecasts)})

Column(series, index) ==
  [j \in 1..Len(index) |->
     IF \E k \in 1..Len(series.index) : series.index[k] = index[j]
     THEN series.values[CHOOSE k \in 1..Len(series.index) : series.index[k] = index[j]]
     ELSE "NaN"]

DataFrame(forecasts) ==
  LET index == DataFrameIndex(forecasts)
  IN [columns |-> Keys(forecasts),
      index |-> index,
      data |-> [i \in 1..Len(forecasts) |-> Column(forecasts[i].series, index)]]

NoTable == [columns |-> <<>>, index |-> <<>>, data |-> <<>>]

ForecastAllProducts(d, min_months, fails) ==
  IF "Product Name" \notin d.cols
  THEN [kind |-> "raised", min_months |-> min_months, table |-> NoTable, log |-> <<>>]
  ELSE LET out == ForecastLoop(d, Unique(ProductNames(d)), min_months, fails, <<>>, <<>>)
       IN IF out.raised
          THEN [kind |-> "raised", min_months |-> min_months, table |-> NoTable,
                log |-> out.log]
          ELSE [kind |-> "table", min_months |-> min_months,
                table |-> DataFrame(out.forecasts), log |-> out.log]

NoResult == [kind |-> "none", min_months |-> 0, table |-> NoTable, log |-> <<>>]

-----------------------------------------------------------------------------
(* The other methods of the agent *)

\* .dt.to_period('M')
ToPeriod(date) == date.ym

MonthOfYear(date) == ((date.ym - 1) % 12) + 1

Season(month) ==
  IF month \in {12, 1, 2} THEN "Winter"
  ELSE IF month \in {3, 4, 5} THEN "Spring"
  ELSE IF month \in {6, 7, 8} THEN "Summer"
  ELSE "Autumn"

\* mutant: the period overwrites the Order Date column
WithMonthOverwrite(d) ==
  [d EXCEPT !.rows = [i \in 1..Len(d.rows) |->
                        [d.rows[i] EXCEPT !.date = Date(ToPeriod(d.rows[i].date), 1)]]]

\* self.df['Month'] = self.df['Order Date'].dt.to_period('M')
WithMonth(d) ==
  [d EXCEPT !.cols = @ \cup {"Month"},
            !.Month = [i \in 1..Len(d.rows) |-> ToPeriod(d.rows[i].date)]]

\* self.df['Season'] = self.df['Order Date'].dt.month.map(season)
WithSeason(d) ==
  [d EXCEPT !.cols = @ \cup {"Season"},
            !.Season = [i \in 1..Len(d.rows) |-> Season(MonthOfYear(d.rows[i].date))]]

-----------------------------------------------------------------------------
(* The chat section.  A text is a sequence of words, each in lower or in    *)
(* upper case; str.lower() puts every word in lower case and `a in b` is    *)
(* the test for a contiguous subsequence.                                   *)

Word(w) == [w |-> w, up |-> FALSE]
Text(ws) == [i \in 1..Len(ws) |-> Word(ws[i])]
Upper(t) == [i \in 1..Len(t) |-> [t[i] EXCEPT !.up = TRUE]]

\* str.lower()
Lower(t) == [i \in 1..Len(t) |-> [t[i] EXCEPT !.up = FALSE]]

\* a in b
In(a, b) ==
  \E k \in 0..(Len(b) - Len(a)) : \A i \in 1..Len(a) : b[k + i] = a[i]

KwMostProfitable == Text(<<"most", "profitable", "category">>)
KwTotalSales == Text(<<"total", "sales">>)
KwTotalProfit == Text(<<"total", "profit">>)
KwUniqueCategories == Text(<<"unique", "categories">>)
KwTopProduct == Text(<<"top", "product">>)

Phrases ==
  {KwMostProfitable, KwTotalSales, KwTotalProfit, KwUniqueCategories, KwTopProduct,
   Text(<<"return", "policy">>), Text(<<"total">>), Text(<<"sales">>)}
CasedPhrases == Phrases \cup {Upper(p) : p \in Phrases}
Prompts == {<<>>} \cup CasedPhrases \cup {p \o q : p, q \in CasedPhrases}

QA(q, a) == [question |-> q, answer |-> a]
KBEntries ==
  {QA(Upper(Text(<<"return", "policy">>)), "kb: returns"),
   QA(Text(<<"policy">>), "kb: policy"),
   QA(KwTotalSales, ""),
   QA(Text(<<"total">>), "kb: totals")}
KnowledgeBases == SeqsUpTo(KBEntries, MaxKB)

ChatRow == Row("A", Date(1, 31), 2)
ChatFiles ==
  {[rows |-> r, cols |-> RequiredColumns \cup OtherColumns] : r \in {<<>>, <<ChatRow>>}}
  \cup {[rows |-> <<ChatRow>>, cols |-> (RequiredColumns \cup OtherColumns) \ {c}] :
          c \in {"Profit", "Category", "Sales", "Product Name"}}

None == "None"

\* mutant: the prompt is compared as typed, without .lower()
get_kb_answer_cased(kb, prompt) ==
  LET hits == {i \in 1..Len(kb) : In(Lower(kb[i].question), prompt)}
  IN IF hits = {} THEN None
     ELSE kb[CHOOSE i \in hits : \A j \in hits : i <= j].answer

RECURSIVE KbScan(_, _)
KbScan(kb, prompt) ==
  IF kb = <<>> THEN None
  ELSE IF In(Lower(Head(kb).question), Lower(prompt)) THEN Head(kb).answer
  ELSE KbScan(Tail(kb), prompt)

get_kb_answer(kb, prompt) == KbScan(kb, prompt)

\* a non-empty string is true, None and "" are not
Truthy(x) == x # None /\ x # ""

\* the dataframe expression of each keyword rule raises on a missing column,
\* and idxmax raises on an empty frame
RuleRaises(rule, d) ==
  CASE rule = "most profitable category" ->
         ~({"Category", "Profit"} \subseteq d.cols) \/ d.rows = <<>>
    [] rule = "total sales" -> "Sales" \notin d.cols
    [] rule = "total profit" -> "Profit" \notin d.cols
    [] rule = "unique categories" -> "Category" \notin d.cols
    [] rule = "top product" ->
         ~({"Product Name", "Sales"} \subseteq d.cols) \/ d.rows = <<>>

\* the if/elif chain over user_prompt.lower()
MatchedRule(prompt) ==
  LET low == Lower(prompt)
  IN IF In(KwMostProfitable, low) THEN "most profitable category"
     ELSE IF In(KwTotalSales, low) THEN "total sales"
     ELSE IF In(KwTotalProfit, low) THEN "total profit"
     ELSE IF In(KwUniqueCategories, low) THEN "unique categories"
     ELSE IF In(KwTopProduct, low) THEN "top product"
     ELSE None

\* the try block: df_answer, None when no rule matched or the rule raised
DfAnswer(prompt, d) ==
  LET rule == MatchedRule(prompt)
  IN IF rule = None \/ RuleRaises(rule, d) THEN None ELSE rule

\* ask_gemini returns a string in every case: its own errors are caught
ask_gemini(kind) == [call |-> "ask_gemini", prompt |-> kind]

NoChat == [route |-> "none", shown |-> <<>>, calls |-> <<>>]

ChatOutcome(kb, prompt, d) ==
  IF prompt = <<>> THEN [route |-> "skipped", shown |-> <<>>, calls |-> <<>>]
  ELSE LET kb_answer == get_kb_answer(kb, prompt)
       IN IF Truthy(kb_answer)
          THEN [route |-> "kb", shown |-> <<kb_answer>>, calls |-> <<>>]
          ELSE LET df_answer == DfAnswer(prompt, d)
               IN IF Truthy(df_answer)
                  THEN [route |-> "excel", shown |-> <<df_answer, "gemini explanation">>,
                        calls |-> <<ask_gemini("rephrase")>>]
                  ELSE [route |-> "gemini", shown |-> <<"gemini response">>,
                        calls |-> <<ask_gemini("raw")>>]

-----------------------------------------------------------------------------
(* The state machine *)

\* the library's fit is a function of the series it is given
FitIsFunction(f, fails) ==
  \A p, q \in Products :
     MonthlySales(ProductData(ReadExcel(f), p)) = MonthlySales(ProductData(ReadExcel(f), q))
       => (p \in fails <=> q \in fails)

Init ==
  /\ file \in Files
  /\ fitFails \in SUBSET {file.rows[i].product : i \in 1..Len(file.rows)}
  /\ IF file \in WellFormedFiles THEN FitIsFunction(file, fitFails) ELSE fitFails = {}
  /\ agent = "none"
  /\ df = NoFrame
  /\ result = NoResult
  /\ repeated = FALSE
  /\ knowledge_base = <<>>
  /\ user_prompt = <<>>
  /\ chat = NoChat

\* agent = SuperstoreAgent(uploaded_file)
Construct ==
  /\ agent = "none"
  /\ IF InitRaises(file)
     THEN agent' = "failed" /\ df' = df
     ELSE agent' = "ready" /\ df' = ReadExcel(file)
  /\ UNCHANGED <<file, fitFails, result, repeated, chatVars>>

category_summary ==
  /\ agent = "ready"
  /\ UNCHANGED vars

month_over_month_profit ==
  /\ agent = "ready"
  /\ df' = WithMonth(df)
  /\ UNCHANGED <<file, fitFails, agent, result, repeated, chatVars>>

season_wise_top_product ==
  /\ agent = "ready"
  /\ df' = WithSeason(df)
  /\ UNCHANGED <<file, fitFails, agent, result, repeated, chatVars>>

count_unique_products ==
  /\ agent = "ready"
  /\ UNCHANGED vars

forecast_all_products ==
  /\ agent = "ready"
  /\ \E min_months \in MinMonthsArgs :
        /\ result' = ForecastAllProducts(df, min_months, fitFails)
        /\ repeated' = (result.kind # "none" /\ result.min_months = min_months)
  /\ UNCHANGED <<file, fitFails, agent, df, chatVars>>

Next ==
  \/ Construct
  \/ category_summary
  \/ month_over_month_profit
  \/ season_wise_top_product
  \/ count_unique_products
  \/ forecast_all_products

Spec == Init /\ [][Next]_vars

\* one run of the script with a file uploaded and a question typed: the agent
\* is built, the selected task is shown, then the chat section runs
InitChat ==
  /\ file \in ChatFiles
  /\ fitFails = {}
  /\ agent = "none"
  /\ df = NoFrame
  /\ result = NoResult
  /\ repeated = FALSE
  /\ knowledge_base \in KnowledgeBases
  /\ user_prompt \in Prompts
  /\ chat = NoChat

ChatSection ==
  /\ agent = "ready"
  /\ chat = NoChat
  /\ chat' = ChatOutcome(knowledge_base, user_prompt, df)
  /\ UNCHANGED <<agentVars, knowledge_base, user_prompt>>

NextChat ==
  \/ Construct
  \/ ChatSection

SpecChat == InitChat /\ [][NextChat]_vars

-----------------------------------------------------------------------------
(* Definitions the properties are stated with, taken from the input rows    *)
(* rather than from the sweep's own intermediate values                     *)

InputProducts == {df.rows[i].product : i \in 1..Len(df.rows)}
RowsOf(p) == {i \in 1..Len(df.rows) : df.rows[i].product = p}
ObservedMonths(p) == {df.rows[i].date.ym : i \in RowsOf(p)}
FirstMonth(p) == CHOOSE m \in ObservedMonths(p) : \A n \in ObservedMonths(p) : m <= n
LastMonth(p) == CHOOSE m \in ObservedMonths(p) : \A n \in ObservedMonths(p) : n <= m
Span(p) == LastMonth(p) - FirstMonth(p) + 1

RECURSIVE SumOver(_)
SumOver(I) ==
  IF I = {} THEN 0
  ELSE LET i == CHOOSE j \in I : TRUE IN df.rows[i].sales + SumOver(I \ {i})
SalesIn(p, ym) == SumOver({i \in RowsOf(p) : df.rows[i].date.ym = ym})

Swept == agent = "ready" /\ result.kind = "table"
TableKeys == Range(result.table.columns)
LogOf(p) == result.log[CHOOSE i \in 1..Len(result.log) : result.log[i].key = p].series
Logged == {result.log[i].key : i \in 1..Len(result.log)}
ColumnOf(p) ==
  result.table.data[CHOOSE i \in 1..Len(result.table.columns) : result.table.columns[i] = p]
CellAt(p, ym) ==
  IF \E j \in 1..Len(result.table.index) : result.table.index[j] = ym
  THEN ColumnOf(p)[CHOOSE j \in 1..Len(result.table.index) : result.table.index[j] = ym]
  ELSE "absent"

\* the dataset with rows k and k+1 exchanged; every file is an input, so a
\* series that no exchange of neighbours changes is the same for every order
Exchanged(k) ==
  [df EXCEPT !.rows = [i \in 1..Len(df.rows) |->
                         IF i = k THEN df.rows[k + 1]
                         ELSE IF i = k + 1 THEN df.rows[k] ELSE df.rows[i]]]

-----------------------------------------------------------------------------
(* C1: a product whose zero-filled monthly series has fewer than min_months *)
(* entries is not a key of the returned table, and the sweep that skipped   *)
(* it returns a table, not an error.                                        *)
C1_ShortSeriesSkipped ==
  (agent = "ready" /\ result.kind # "none") =>
     \A i \in 1..Len(result.log) :
        Len(result.log[i].series.values) < result.min_months =>
           /\ result.kind = "table"
           /\ result.log[i].key \notin TableKeys

C1_Witness ==
  /\ Swept
  /\ result.min_months = DefaultMinMonths
  /\ \E p \in Logged : Len(LogOf(p).values) = DefaultMinMonths - 1 /\ p \notin TableKeys

(* C2 as claimed: a product with fewer than min_months months in which it  *)
(* has a transaction is absent from the table.                              *)
C2_Claimed ==
  Swept => \A p \in InputProducts :
              Cardinality(ObservedMonths(p)) < result.min_months => p \notin TableKeys

(* C2 amended: the threshold is on the calendar span from the first to the *)
(* last order month, not on the months with transactions: a key of the      *)
(* table has a span of at least min_months, and a product with fewer than   *)
(* min_months observed months whose span reaches min_months is a key when   *)
(* its fit succeeds.                                                        *)
C2_SpanDecides ==
  Swept => \A p \in InputProducts :
              /\ p \in TableKeys => Span(p) >= result.min_months
              /\ (Span(p) >= result.min_months /\ p \notin fitFails) => p \in TableKeys

C2_Witness ==
  /\ Swept
  /\ result.min_months = DefaultMinMonths
  /\ \E p \in TableKeys : Cardinality(ObservedMonths(p)) = 2 /\ Span(p) = DefaultMinMonths

(* C3 as claimed: every column of the returned table has exactly Horizon   *)
(* entries, for the Horizon months that follow the product's own last       *)
(* observed month, in increasing order.                                     *)
C3_Claimed ==
  Swept => \A p \in TableKeys :
              /\ Len(ColumnOf(p)) = Horizon
              /\ \A j \in 1..Horizon :
                    /\ result.table.index[j] = LastMonth(p) + j
                    /\ ColumnOf(p)[j] # "NaN"

(* C4: a failed fit never makes the sweep raise; the failing product is    *)
(* left out, every product of the input is still visited, and every        *)
(* product that meets the threshold and whose fit succeeds is a key with   *)
(* its forecast values at its own six months.                              *)
C4_FitFailureSwallowed ==
  (agent = "ready" /\ result.kind # "none") =>
     /\ result.kind = "raised" => ~(RequiredColumns \subseteq df.cols)
     /\ result.kind = "table" =>
          /\ Logged = InputProducts
          /\ \A p \in InputProducts :
                /\ p \in fitFails => p \notin TableKeys
                /\ (Len(LogOf(p).values) >= result.min_months /\ p \notin fitFails) =>
                      /\ p \in TableKeys
                      /\ \A j \in 1..Horizon : CellAt(p, LastMonth(p) + j) = "pred"

C4_Witness ==
  /\ Swept
  /\ Len(result.log) = 2
  /\ result.log[1].key \in fitFails
  /\ Len(result.log[1].series.values) >= result.min_months
  /\ result.table.columns = <<result.log[2].key>>

(* C5: the monthly series of a product has one entry per calendar month    *)
(* from its first to its last order month, in order and without gaps; each *)
(* entry is the sum of the product's sales dated in that month, zero for a *)
(* month without transactions, whatever the order of the input rows.       *)
C5_MonthlySeries ==
  (agent = "ready" /\ result.kind # "none") =>
     \A p \in Logged :
        LET series == LogOf(p) IN
        /\ Len(series.index) = Span(p)
        /\ Len(series.values) = Span(p)
        /\ \A i \in 1..Span(p) :
              /\ series.index[i] = FirstMonth(p) + i - 1
              /\ series.values[i] = SalesIn(p, FirstMonth(p) + i - 1)
        /\ \A k \in 1..(Len(df.rows) - 1) :
              MonthlySales(ProductData(Exchanged(k), p)) = series

C5_Witness ==
  /\ Swept
  /\ \E p \in Logged :
        /\ Len(LogOf(p).values) = DefaultMinMonths
        /\ LogOf(p).values[2] = 0
        /\ Cardinality({i \in RowsOf(p) : df.rows[i].date.ym = LastMonth(p)}) = 2
        /\ LogOf(p).values[DefaultMinMonths] = 6

(* C6: a second call with the same argument returns what the first call    *)
(* returned, and the keys of a returned table are in the order in which    *)
(* the products first appear in the input rows.                            *)
FirstRow(p) ==
  CHOOSE k \in 1..Len(file.rows) :
     file.rows[k].product = p /\ \A l \in 1..(k - 1) : file.rows[l].product # p
FirstSeenOrder(t) ==
  \A i, j \in 1..Len(t.columns) : i < j => FirstRow(t.columns[i]) < FirstRow(t.columns[j])
C6_Idempotent ==
  [][/\ (result.kind # "none" /\ result'.min_months = result.min_months) => result' = result
     /\ result'.kind = "table" => FirstSeenOrder(result'.table)]_vars

C6_Witness ==
  /\ Swept
  /\ repeated
  /\ result.table.columns = <<"B", "A">>
  /\ "Month" \in df.cols

(* C7: the keys of the returned table are exactly the products whose       *)
(* monthly series has at least min_months entries and whose fit succeeded, *)
(* each once and each with Horizon forecast values; no other product has a *)
(* column, empty or not.                                                   *)
C7_ExactKeys ==
  Swept =>
     /\ TableKeys = {p \in Logged : Len(LogOf(p).values) >= result.min_months /\ p \notin fitFails}
     /\ Logged = InputProducts
     /\ Cardinality(TableKeys) = Len(result.table.columns)
     /\ Len(result.table.data) = Len(result.table.columns)
     /\ \A p \in TableKeys :
           Cardinality({j \in 1..Len(ColumnOf(p)) : ColumnOf(p)[j] = "pred"}) = Horizon

C7_Witness ==
  /\ Swept
  /\ result.min_months = DefaultMinMonths
  /\ fitFails = {}
  /\ Cardinality(InputProducts) = 2
  /\ Cardinality(TableKeys) = 1

C7_WitnessNone ==
  Swept /\ InputProducts # {} /\ TableKeys = {} /\ result.table = NoTable

(* C8 as claimed: on an input with an unparseable order date or without a  *)
(* required column no agent is built or every sweep raises.                *)
Malformed(f) ==
  \/ ~(RequiredColumns \subseteq f.cols)
  \/ \E i \in 1..Len(f.rows) : ~f.rows[i].date.valid
C8_Claimed ==
  Malformed(file) => /\ agent # "ready" \/ result.kind \in {"none", "raised"}
                     /\ result.kind # "table"

(* C8 amended: the sweep raises only for malformed input and then returns  *)
(* no table.  An unparseable date or a missing Order Date column fails the *)
(* construction of the agent; a missing Product Name column makes every    *)
(* sweep raise; a missing Sales column makes the sweep raise in the        *)
(* monthly-series step of the first product when the dataset has a row,    *)
(* and on a dataset without rows the sweep returns an empty table.         *)
C8_HardFailure ==
  /\ agent = "failed" =>
        ("Order Date" \notin file.cols \/ \E i \in 1..Len(file.rows) : ~file.rows[i].date.valid)
  /\ agent = "ready" =>
        ("Order Date" \in file.cols /\ \A i \in 1..Len(file.rows) : file.rows[i].date.valid)
  /\ agent # "ready" => result.kind = "none"
  /\ result.kind = "raised" => (Malformed(file) /\ result.table = NoTable)
  /\ result.kind # "none" =>
        (result.kind = "raised" <=>
           \/ "Product Name" \notin file.cols
           \/ ("Sales" \notin file.cols /\ file.rows # <<>>))
  /\ (result.kind = "raised" /\ "Product Name" \in file.cols) => result.log = <<>>

C8_Witness ==
  /\ result.kind = "raised"
  /\ "Product Name" \in file.cols
  /\ Len(file.rows) = 2

(* C9: the reporting methods add the Month and Season columns and change   *)
(* neither the rows nor the other columns of the dataset, the sweep leaves *)
(* the dataset as it is, and the result of a sweep is the result of the    *)
(* sweep on a freshly constructed agent for the same file.                 *)
C9_SameAsFresh ==
  agent = "ready" =>
     /\ df.rows = file.rows
     /\ df.cols \ {"Month", "Season"} = file.cols
     /\ Len(df.Month) \in {0, Len(df.rows)}
     /\ Len(df.Season) \in {0, Len(df.rows)}
     /\ result.kind # "none" =>
           result = ForecastAllProducts(ReadExcel(file), result.min_months, fitFails)

C9_Witness ==
  /\ Swept
  /\ {"Month", "Season"} \subseteq df.cols
  /\ Len(df.Month) = 3
  /\ Len(result.table.columns) = 1

(* C10: for a non-empty prompt the chat section takes exactly one route.   *)
(* The knowledge-base answer of the first entry, in file order, whose      *)
(* question is a case-insensitive substring of the prompt wins when it is  *)
(* non-empty, and then no keyword rule runs and ask_gemini is not called;  *)
(* otherwise the first matching keyword rule, when its dataframe           *)
(* expression does not raise, is shown and ask_gemini is called once with  *)
(* the rephrasing prompt; otherwise ask_gemini is called once with the raw *)
(* prompt.                                                                 *)
KbHits == {i \in 1..Len(knowledge_base) :
             In(Lower(knowledge_base[i].question), Lower(user_prompt))}
KbFirst == knowledge_base[CHOOSE i \in KbHits : \A j \in KbHits : i <= j]
KbWins == KbHits # {} /\ KbFirst.answer # ""
RuleKeywords ==
  <<[kw |-> KwMostProfitable, rule |-> "most profitable category"],
    [kw |-> KwTotalSales, rule |-> "total sales"],
    [kw |-> KwTotalProfit, rule |-> "total profit"],
    [kw |-> KwUniqueCategories, rule |-> "unique categories"],
    [kw |-> KwTopProduct, rule |-> "top product"]>>
RuleHits == {i \in 1..Len(RuleKeywords) : In(RuleKeywords[i].kw, Lower(user_prompt))}
FirstRule == RuleKeywords[CHOOSE i \in RuleHits : \A j \in RuleHits : i <= j].rule
RuleAnswers == RuleHits # {} /\ ~RuleRaises(FirstRule, df)

C10_OneRoute ==
  (chat.route # "none" /\ user_prompt # <<>>) =>
     /\ chat.route \in {"kb", "excel", "gemini"}
     /\ chat.route = "kb" <=> KbWins
     /\ chat.route = "excel" <=> (~KbWins /\ RuleAnswers)
     /\ chat.route = "gemini" <=> (~KbWins /\ ~RuleAnswers)
     /\ chat.route = "kb" => (chat.shown = <<KbFirst.answer>> /\ chat.calls = <<>>)
     /\ chat.route = "excel" =>
           /\ chat.shown[1] = FirstRule
           /\ chat.calls = <<[call |-> "ask_gemini", prompt |-> "rephrase"]>>
     /\ chat.route = "gemini" =>
           chat.calls = <<[call |-> "ask_gemini", prompt |-> "raw"]>>

C10_Witness ==
  /\ chat.route = "excel"
  /\ KbHits # {}
  /\ Cardinality(RuleHits) = 2
  /\ \E w \in Range(user_prompt) : w.up

C10_WitnessRaised ==
  chat.route = "gemini" /\ RuleHits # {} /\ RuleRaises(FirstRule, df)

====
